---- MODULE Spec2Model ----
(***************************************************************************)
(* Collaborative code-editing session service (server/src).                *)
(*                                                                         *)
(* State: the MockDatabase singleton `db` (database.py), the module-level  *)
(* registry `active_connections` (websocket.py) and, per WebSocket handle, *)
(* the position and the locals of its websocket_endpoint coroutine.        *)
(*                                                                         *)
(* Scheduling: asyncio, one coroutine per connection plus the HTTP route   *)
(* handlers.  A coroutine runs without interruption from one `await` to    *)
(* the next, so every action below is the code between two awaits.  The    *)
(* awaits are websocket.accept(), websocket.receive_text() and every       *)
(* send_json() inside ConnectionManager.broadcast.                         *)
(***************************************************************************)
EXTENDS Integers, Sequences, FiniteSets, TLC

(***************************************************************************)
(* Values                                                                  *)
(***************************************************************************)
\* Python's None (and, for a dict, "key absent" where .get() returns None).
None == "<None>"

\* models.Language: the enum's values.
Language == {"javascript", "python", "java", "cpp"}

\* Session ids are uuid4 strings; the pool they are drawn from.
SessionIds == {"s1"}

\* WebSocket handles, numbered in order of arrival.
Conns == {"c1", "c2", "c3"}
ConnOrder == <<"c1", "c2", "c3">>

\* Inputs a client may supply.
Codes == {"X", "Y"}
CreateLanguages == {"javascript", "python"}
ChangeLanguages == {"python", "ruby", ""}

\* The log is allowed to grow to this length (append guards).
MaxHistory == 2

\* `if x:` on a str or None.
Truthy(x) == x \notin {None, ""}

\* str(uuid.uuid4()) evaluated by the coroutine of connection w.
uuid4(w) == "uuid4-" \o w

\* datetime.now(timezone.utc).isoformat(): the clock is not modelled.
now == "now"

(***************************************************************************)
(* dict helpers                                                            *)
(***************************************************************************)
Put(f, k, v) == [x \in (DOMAIN f) \cup {k} |-> IF x = k THEN v ELSE f[x]]
Pop(f, k) == [x \in (DOMAIN f) \ {k} |-> f[x]]
Get(m, k, default) == IF k \in DOMAIN m THEN m[k] ELSE default

RECURSIVE Filter(_, _)
\* [p for p in roster if p.userId != user_id]
Filter(roster, uid) ==
    IF roster = <<>> THEN <<>>
    ELSE IF Head(roster).userId # uid
         THEN <<Head(roster)>> \o Filter(Tail(roster), uid)
         ELSE Filter(Tail(roster), uid)

(***************************************************************************)
(* database.py: MockDatabase.  Every method is a function of the database  *)
(* value d (a record of its four dicts) returning the database after it;   *)
(* the method's return value is a separate operator where it is used.      *)
(***************************************************************************)
\* MockDatabase.__init__
EmptyDb == [sessions |-> <<>>, code_snapshots |-> <<>>,
            participants |-> <<>>, history |-> <<>>]

\* f"// Write your {language.value} code here\n"
Placeholder(language) ==
    CASE language = "javascript" -> "// Write your javascript code here\n"
      [] language = "python" -> "// Write your python code here\n"
      [] language = "java" -> "// Write your java code here\n"
      [] language = "cpp" -> "// Write your cpp code here\n"

create_session(d, session_id, language, title) ==
    [sessions |-> Put(d.sessions, session_id,
                      [title |-> title, language |-> language,
                       activeParticipants |-> 0,
                       code |-> Placeholder(language)]),
     code_snapshots |-> Put(d.code_snapshots, session_id, <<>>),
     participants |-> Put(d.participants, session_id, <<>>),
     history |-> Put(d.history, session_id, <<>>)]

\* Session(**session_data, url=...): pydantic validates `language: Language`.
ValidSession(session_data) == session_data.language \in Language

\* get_session: None, the Session, or a raised ValidationError.
get_session(d, session_id) ==
    IF session_id \notin DOMAIN d.sessions THEN [result |-> "None"]
    ELSE IF ~ValidSession(d.sessions[session_id])
         THEN [result |-> "ValidationError"]
         ELSE [result |-> "Session",
               title |-> d.sessions[session_id].title,
               language |-> d.sessions[session_id].language,
               activeParticipants |-> d.sessions[session_id].activeParticipants]

\* update_session: the dict is mutated before the Session is built.
update_session(d, session_id, language, title, active_participants) ==
    IF session_id \notin DOMAIN d.sessions THEN d
    ELSE LET s0 == d.sessions[session_id]
             s1 == IF language # None THEN [s0 EXCEPT !.language = language] ELSE s0
             s2 == IF title # None THEN [s1 EXCEPT !.title = title] ELSE s1
             s3 == IF active_participants # -1
                   THEN [s2 EXCEPT !.activeParticipants = active_participants]
                   ELSE s2
         IN [d EXCEPT !.sessions[session_id] = s3]

delete_session(d, session_id) ==
    IF session_id \notin DOMAIN d.sessions THEN d
    ELSE [sessions |-> Pop(d.sessions, session_id),
          code_snapshots |-> Pop(d.code_snapshots, session_id),
          participants |-> Pop(d.participants, session_id),
          history |-> Pop(d.history, session_id)]

\* get_code: None or {sessionId, code, language, lastModified}.
get_code(d, session_id) ==
    IF session_id \notin DOMAIN d.sessions THEN [result |-> "None"]
    ELSE [result |-> "dict", sessionId |-> session_id,
          code |-> d.sessions[session_id].code,
          language |-> d.sessions[session_id].language]

\* add_history_entry with history.insert(0, entry) for append(entry).
add_history_entry_at_front(d, session_id, user_id, change_type, description, code_snapshot) ==
    IF session_id \notin DOMAIN d.sessions THEN d
    ELSE [d EXCEPT !.history[session_id] =
            <<[userId |-> user_id, changeType |-> change_type,
               description |-> description,
               codeSnapshot |-> code_snapshot]>> \o @]

add_history_entry(d, session_id, user_id, change_type, description, code_snapshot) ==
    IF session_id \notin DOMAIN d.sessions THEN d
    ELSE [d EXCEPT !.history[session_id] =
            Append(@, [userId |-> user_id, changeType |-> change_type,
                       description |-> description,
                       codeSnapshot |-> code_snapshot])]

\* save_code without the guard of lines 119-120, writing with setdefault.
save_code_upsert(d, session_id, code, language, user_id) ==
    [d EXCEPT !.code_snapshots =
                 Put(@, session_id,
                     Append(Get(@, session_id, <<>>),
                            [code |-> code, language |-> language,
                             userId |-> user_id]))]

\* save_code without line 136: the session's code field is not written.
save_code_snapshot_only(d, session_id, code, language, user_id) ==
    IF session_id \notin DOMAIN d.sessions THEN d
    ELSE LET d1 == [d EXCEPT
                      !.code_snapshots[session_id] =
                          Append(@, [code |-> code, language |-> language,
                                     userId |-> user_id])]
         IN add_history_entry(d1, session_id, user_id, "snapshot",
                              "Code snapshot saved", code)

save_code(d, session_id, code, language, user_id) ==
    IF session_id \notin DOMAIN d.sessions THEN d
    ELSE LET d1 == [d EXCEPT
                      !.code_snapshots[session_id] =
                          Append(@, [code |-> code, language |-> language,
                                     userId |-> user_id]),
                      !.sessions[session_id].code = code]
         IN add_history_entry(d1, session_id, user_id, "snapshot",
                              "Code snapshot saved", code)

\* add_participant without lines 174-176: the count is not recomputed.
add_participant_count_not_recomputed(d, session_id, user_id, name) ==
    IF session_id \notin DOMAIN d.sessions THEN d
    ELSE [d EXCEPT !.participants[session_id] =
            Append(Filter(@, user_id), [userId |-> user_id, name |-> name])]

\* add_participant without lines 169-172: the entry of the same userId stays.
add_participant_no_replace(d, session_id, user_id, name) ==
    IF session_id \notin DOMAIN d.sessions THEN d
    ELSE LET roster == Append(d.participants[session_id],
                              [userId |-> user_id, name |-> name])
         IN [d EXCEPT !.participants[session_id] = roster,
                      !.sessions[session_id].activeParticipants = Len(roster)]

add_participant(d, session_id, user_id, name) ==
    IF session_id \notin DOMAIN d.sessions THEN d
    ELSE LET roster == Append(Filter(d.participants[session_id], user_id),
                              [userId |-> user_id, name |-> name])
         IN [d EXCEPT !.participants[session_id] = roster,
                      !.sessions[session_id].activeParticipants = Len(roster)]

\* remove_participant filtering the rosters of all sessions, not only of
\* session_id.
remove_participant_everywhere(d, session_id, user_id) ==
    IF session_id \notin DOMAIN d.sessions THEN d
    ELSE [d EXCEPT
            !.participants = [x \in DOMAIN d.participants |->
                                Filter(d.participants[x], user_id)],
            !.sessions = [x \in DOMAIN d.sessions |->
                            [d.sessions[x] EXCEPT !.activeParticipants =
                                Len(Filter(d.participants[x], user_id))]]]

remove_participant(d, session_id, user_id) ==
    IF session_id \notin DOMAIN d.sessions THEN d
    ELSE LET roster == Filter(d.participants[session_id], user_id)
         IN [d EXCEPT !.participants[session_id] = roster,
                      !.sessions[session_id].activeParticipants = Len(roster)]

\* get_participants: None or the roster.
get_participants(d, session_id) ==
    IF session_id \notin DOMAIN d.sessions THEN <<>>
    ELSE d.participants[session_id]

\* get_history with history[:limit] for history[-limit:].
get_history_oldest(d, session_id, limit) ==
    LET h == d.history[session_id]
    IN IF Len(h) > limit THEN SubSeq(h, 1, limit) ELSE h

\* get_history: history[-limit:] if len(history) > limit else history.
get_history(d, session_id, limit) ==
    LET h == d.history[session_id]
    IN IF Len(h) > limit THEN SubSeq(h, Len(h) - limit + 1, Len(h)) ELSE h

(***************************************************************************)
(* Messages                                                                *)
(***************************************************************************)
\* Inbound messages: json.loads(data), a dict with the keys the client sent.
JoinMsg(u, n) == [type |-> "join", userId |-> u, data |-> [name |-> n]]
JoinMsgs == {JoinMsg("u1", "Alice"), JoinMsg("u1", "Bob"), JoinMsg("u2", "Bob"),
             JoinMsg("", "Alice")}
PingMsg == [type |-> "ping"]
CodeUpdateMsgs ==
    {[type |-> "code-update", data |-> [code |-> c]] : c \in Codes}
    \cup {[type |-> "code-update", data |-> [changes |-> "[]"]]}
CursorMsg == [type |-> "cursor-position", data |-> [line |-> "5", column |-> "10"]]
LanguageChangeMsgs ==
    {[type |-> "language-change", data |-> [language |-> l]] : l \in ChangeLanguages}
    \cup {[type |-> "language-change"]}
OtherMsg == [type |-> "bogus"]
\* Texts that are not a JSON object: raw is the text as received.
MalformedMsgs == {[raw |-> "{not json"], [raw |-> "[]"]}

\* message.get("data", {})
DataOf(message) == Get(message, "data", <<>>)

\* Outbound messages, as the dicts the server builds.
WelcomeMsg(session_id, code_data, session_language, participants) ==
    [type |-> "welcome", timestamp |-> now,
     data |-> [sessionId |-> session_id,
               currentCode |-> IF code_data.result = "dict" THEN code_data.code ELSE "",
               language |-> session_language,
               participants |-> [i \in 1..Len(participants) |->
                                   [userId |-> participants[i].userId,
                                    name |-> participants[i].name]]]]
UserJoinedMsg(uid, nm, count) ==
    [type |-> "user-joined", timestamp |-> now, userId |-> uid,
     data |-> [name |-> nm, participantCount |-> count]]
PongMsg == [type |-> "pong", timestamp |-> now]
CodeUpdateEvent(uid, message) ==
    [type |-> "code-update", timestamp |-> now, userId |-> uid, data |-> DataOf(message)]
CursorEvent(uid, message) ==
    [type |-> "cursor-position", timestamp |-> now, userId |-> uid, data |-> DataOf(message)]
LanguageChangedEvent(uid, new_language) ==
    [type |-> "language-changed", timestamp |-> now, userId |-> uid,
     data |-> [language |-> new_language]]

(***************************************************************************)
(* State                                                                   *)
(***************************************************************************)
VARIABLES
    db,                  \* database.db: the MockDatabase instance
    uuids,               \* session ids uuid4 has produced so far
    active_connections,  \* websocket.active_connections: session id -> set
    pc,                  \* per handle: where its websocket_endpoint coroutine is
    sid,                 \* per handle: the session_id path parameter
    session,             \* per handle: language of the Session read at connect
    user_id,             \* per handle: the local user_id
    peer,                \* per handle: TRUE while the client's transport is up
    bc,                  \* per handle: the broadcast it is suspended in, or <<>>
    ev                   \* the step just taken: what was handled and delivered

vars == <<db, uuids, active_connections, pc, sid, session, user_id, peer, bc, ev>>

\* op: the step; conn: the handle whose coroutine ran; uid: its local user_id
\* at the end of the step (before the locals die); msg: the inbound message
\* being handled; out: the deliveries made in this step; exc: the exception
\* that ended the coroutine; fin: the handling of msg ended in this step;
\* bcast: the fan-out that ended in this step (as it stood), or <<>>.
Ev(op, conn, uid, msg, out, exc, fin, bcast) ==
    [op |-> op, conn |-> conn, uid |-> uid, msg |-> msg, out |-> out, exc |-> exc,
     fin |-> fin, bcast |-> bcast]

Deliver(t, message) == IF peer[t] THEN {[to |-> t, msg |-> message]} ELSE {}

Init ==
    /\ db = EmptyDb
    /\ uuids = {}
    /\ active_connections = <<>>
    /\ pc = [w \in Conns |-> "new"]
    /\ sid = [w \in Conns |-> None]
    /\ session = [w \in Conns |-> None]
    /\ user_id = [w \in Conns |-> None]
    /\ peer = [w \in Conns |-> TRUE]
    /\ bc = [w \in Conns |-> <<>>]
    /\ ev = Ev("init", None, None, <<>>, {}, None, FALSE, <<>>)

chan == <<active_connections, pc, sid, session, user_id, peer, bc>>

(***************************************************************************)
(* routers/sessions.py: the HTTP handlers that write the store             *)
(***************************************************************************)
\* POST /api/sessions
CreateSession(session_id, language, title) ==
    /\ session_id \notin uuids
    /\ uuids' = uuids \cup {session_id}
    /\ db' = create_session(db, session_id, language, title)
    /\ ev' = Ev("create", None, None, <<>>, {}, None, FALSE, <<>>)
    /\ UNCHANGED chan

\* PATCH /api/sessions/{session_id}: SessionUpdate holds a Language or None.
UpdateSession(session_id, language, title) ==
    /\ db' = update_session(db, session_id, language, title, -1)
    /\ ev' = Ev("update", None, None, <<>>, {}, None, FALSE, <<>>)
    /\ UNCHANGED <<uuids, chan>>

\* DELETE /api/sessions/{session_id}
DeleteSession(session_id) ==
    /\ session_id \in DOMAIN db.sessions
    /\ db' = delete_session(db, session_id)
    /\ ev' = Ev("delete", None, None, <<>>, {}, None, FALSE, <<>>)
    /\ UNCHANGED <<uuids, chan>>

\* POST /api/sessions/{session_id}/code: user_id defaults to "anonymous".
SaveCode(session_id, code, language) ==
    /\ session_id \in DOMAIN db.sessions => Len(db.history[session_id]) < MaxHistory
    /\ db' = save_code(db, session_id, code, language, "anonymous")
    /\ ev' = [Ev("save", None, None, <<>>, {}, None, FALSE, <<>>) EXCEPT
                !.msg = [sessionId |-> session_id, code |-> code, language |-> language]]
    /\ UNCHANGED <<uuids, chan>>

\* GET /api/sessions/{session_id}/history?limit=: Query(ge=1, le=100).
\* The limits tried reach one past the longest log.
Limits == 1..(MaxHistory + 1)

\* routers/collaboration.py get_session_history: 404 when the store
\* returns None, else the entries; ev.msg holds the request and its answer.
GetHistory(session_id, limit) ==
    /\ ev' = [Ev("history", None, None, <<>>, {}, None, FALSE, <<>>) EXCEPT
                !.msg = [sessionId |-> session_id, limit |-> limit,
                         found |-> session_id \in DOMAIN db.sessions,
                         history |-> IF session_id \in DOMAIN db.sessions
                                     THEN get_history(db, session_id, limit)
                                     ELSE <<>>]]
    /\ UNCHANGED <<db, uuids, chan>>

(***************************************************************************)
(* websocket.py                                                            *)
(***************************************************************************)
\* The cleanup with `del active_connections[session_id]` not guarded by
\* `if not active_connections[session_id]`.
Discarded_drops_key(conns, session_id, w) ==
    IF session_id \notin DOMAIN conns THEN conns
    ELSE Pop(conns, session_id)

\* active_connections[session_id].discard(websocket), and
\* `if not active_connections[session_id]: del active_connections[session_id]`.
Discarded(conns, session_id, w) ==
    IF session_id \notin DOMAIN conns THEN conns
    ELSE IF conns[session_id] \ {w} = {} THEN Pop(conns, session_id)
         ELSE [conns EXCEPT ![session_id] = @ \ {w}]

\* websocket_endpoint, lines 263-284: both except branches run the same
\* cleanup and the coroutine ends.  uid is the local user_id, d the database
\* as the handler left it.  A fan-out suspended on the set of a deleted key
\* keeps iterating the old (now empty) set object: it is marked orphan.
Terminate(w, d, uid, op, in, exc, it) ==
    LET s == sid[w]
        conns == Discarded(active_connections, s, w)
        dropped == s \in DOMAIN active_connections /\ s \notin DOMAIN conns
    IN /\ active_connections' = conns
       /\ db' = IF Truthy(uid) THEN remove_participant(d, s, uid) ELSE d
       /\ pc' = [pc EXCEPT ![w] = "closed"]
       /\ user_id' = [user_id EXCEPT ![w] = None]
       /\ peer' = [peer EXCEPT ![w] = FALSE]
       /\ bc' = [x \in Conns |->
                   IF x = w THEN <<>>
                   ELSE IF dropped /\ bc[x] # <<>> /\ sid[x] = s
                        THEN [bc[x] EXCEPT !.orphan = TRUE]
                        ELSE bc[x]]
       /\ ev' = Ev(op, w, uid, in, {}, exc, TRUE, it)
       /\ UNCHANGED <<uuids, sid, session>>

\* The handler returns to `await websocket.receive_text()`.
Return(w, d, uid, in, out) ==
    /\ db' = d
    /\ user_id' = [user_id EXCEPT ![w] = uid]
    /\ pc' = [pc EXCEPT ![w] = "open"]
    /\ bc' = [bc EXCEPT ![w] = <<>>]
    /\ ev' = Ev("recv", w, uid, in, out, None, TRUE, <<>>)
    /\ UNCHANGED <<uuids, active_connections, sid, session, peer>>

\* ConnectionManager.broadcast, lines 102-113: one turn of
\* `for connection in active_connections[session_id]`, from the iterator's
\* next() to the await of the following send_json, or to the end of the
\* loop and the pruning.  it.snap is the set as it was when the iterator was
\* made, it.seen the connections visited with the outcome of each send.
\* next() raises RuntimeError when the set's size is not the size it had
\* then; with the size the same, members added meanwhile may or may not be
\* visited.
Iterate(w, d, uid, it, op) ==
    LET s == sid[w]
        cur == IF it.orphan THEN {} ELSE active_connections[s]
        seen == {it.seen[i].conn : i \in DOMAIN it.seen}
        must == (cur \cap it.snap) \ (seen \cup {it.exclude})
        may == (cur \ it.snap) \ (seen \cup {it.exclude})
        disconnected == {it.seen[i].conn : i \in {j \in DOMAIN it.seen : ~it.seen[j].ok}}
    IN IF Cardinality(cur) # Cardinality(it.snap)
       THEN Terminate(w, d, uid, op, it.in, "RuntimeError", it)
       ELSE \/ \E t \in must \cup may :
                 /\ bc' = [bc EXCEPT ![w] =
                             [it EXCEPT !.seen = Append(@, [conn |-> t, ok |-> peer[t]])]]
                 /\ pc' = [pc EXCEPT ![w] = "bcast"]
                 /\ db' = d
                 /\ user_id' = [user_id EXCEPT ![w] = uid]
                 /\ ev' = Ev(op, w, uid, it.in, Deliver(t, it.message), None, FALSE, <<>>)
                 /\ UNCHANGED <<uuids, active_connections, sid, session, peer>>
            \/ /\ must = {}
               /\ active_connections' =
                     IF disconnected = {} THEN active_connections
                     ELSE [active_connections EXCEPT ![s] = @ \ disconnected]
               /\ pc' = [pc EXCEPT ![w] = "open"]
               /\ bc' = [bc EXCEPT ![w] = <<>>]
               /\ db' = d
               /\ user_id' = [user_id EXCEPT ![w] = uid]
               /\ ev' = Ev(op, w, uid, it.in, {}, None, TRUE, it)
               /\ UNCHANGED <<uuids, sid, session, peer>>

\* ConnectionManager.broadcast, lines 97-102: entered from a handler.
broadcast(w, d, uid, in, message, exclude) ==
    IF sid[w] \notin DOMAIN active_connections
    THEN Return(w, d, uid, in, {})
    ELSE Iterate(w, d, uid,
                 [in |-> in, message |-> message, exclude |-> exclude,
                  snap |-> active_connections[sid[w]], seen |-> <<>>,
                  orphan |-> FALSE],
                 "recv")

\* A broadcast resumes after `await connection.send_json(message)`.
BcastStep(w) ==
    /\ pc[w] = "bcast"
    /\ Iterate(w, db, user_id[w], bc[w], "bcast")

\* The connect step with the registration (lines 197-200) moved before the
\* session check.
Connect_registers_first(w, session_id) ==
    /\ pc[w] = "new"
    /\ \A i \in DOMAIN ConnOrder :
          (ConnOrder[i] = w /\ i > 1) => pc[ConnOrder[i - 1]] # "new"
    /\ active_connections' = Put(active_connections, session_id,
                                 Get(active_connections, session_id, {}) \cup {w})
    /\ LET r == get_session(db, session_id)
       IN /\ sid' = [sid EXCEPT ![w] = session_id]
          /\ IF r.result = "Session"
             THEN /\ pc' = [pc EXCEPT ![w] = "accepting"]
                  /\ session' = [session EXCEPT ![w] = r.language]
                  /\ peer' = peer
                  /\ ev' = Ev("connect", w, None, <<>>, {}, None, FALSE, <<>>)
             ELSE /\ pc' = [pc EXCEPT ![w] = "closed"]
                  /\ session' = session
                  /\ peer' = [peer EXCEPT ![w] = FALSE]
                  /\ ev' = Ev("connect", w, None, <<>>, {},
                              IF r.result = "None" THEN "close-1008"
                              ELSE "ValidationError",
                              TRUE, <<>>)
    /\ UNCHANGED <<db, uuids, user_id, bc>>

\* websocket_endpoint, lines 188-195: up to `await websocket.accept()`.
Connect(w, session_id) ==
    /\ pc[w] = "new"
    /\ \A i \in DOMAIN ConnOrder :
          (ConnOrder[i] = w /\ i > 1) => pc[ConnOrder[i - 1]] # "new"
    /\ LET r == get_session(db, session_id)
       IN /\ sid' = [sid EXCEPT ![w] = session_id]
          /\ IF r.result = "Session"
             THEN /\ pc' = [pc EXCEPT ![w] = "accepting"]
                  /\ session' = [session EXCEPT ![w] = r.language]
                  /\ peer' = peer
                  /\ ev' = Ev("connect", w, None, <<>>, {}, None, FALSE, <<>>)
             ELSE /\ pc' = [pc EXCEPT ![w] = "closed"]
                  /\ session' = session
                  /\ peer' = [peer EXCEPT ![w] = FALSE]
                  /\ ev' = Ev("connect", w, None, <<>>, {},
                              IF r.result = "None" THEN "close-1008"
                              ELSE "ValidationError",
                              TRUE, <<>>)
    /\ UNCHANGED <<db, uuids, active_connections, user_id, bc>>

\* The handshake as ConnectionManager.connect (lines 20-68, never called)
\* does it: a Participant is added before any join.
Accepted_adds_participant(w) ==
    /\ pc[w] = "accepting"
    /\ LET s == sid[w]
           welcome_msg == WelcomeMsg(s, get_code(db, s), session[w],
                                     get_participants(db, s))
       IN /\ active_connections' =
                IF s \in DOMAIN active_connections
                THEN [active_connections EXCEPT ![s] = @ \cup {w}]
                ELSE Put(active_connections, s, {w})
          /\ db' = add_participant(db, s, uuid4(w), "Anonymous User")
          /\ IF peer[w]
             THEN /\ pc' = [pc EXCEPT ![w] = "open"]
                  /\ ev' = Ev("accept", w, None, <<>>, Deliver(w, welcome_msg),
                              None, FALSE, <<>>)
             ELSE /\ pc' = [pc EXCEPT ![w] = "closed"]
                  /\ ev' = Ev("accept", w, None, <<>>, {}, "SendFailed", TRUE, <<>>)
    /\ session' = [session EXCEPT ![w] = None]
    /\ UNCHANGED <<uuids, sid, user_id, peer, bc>>

\* websocket_endpoint, lines 197-229: from the return of accept() to the
\* first `await websocket.receive_text()`.  A failing send of the welcome is
\* raised outside the try block: the coroutine ends without cleanup.
Accepted(w) ==
    /\ pc[w] = "accepting"
    /\ LET s == sid[w]
           welcome_msg == WelcomeMsg(s, get_code(db, s), session[w],
                                     get_participants(db, s))
       IN /\ active_connections' =
                IF s \in DOMAIN active_connections
                THEN [active_connections EXCEPT ![s] = @ \cup {w}]
                ELSE Put(active_connections, s, {w})
          /\ IF peer[w]
             THEN /\ pc' = [pc EXCEPT ![w] = "open"]
                  /\ ev' = Ev("accept", w, None, <<>>, Deliver(w, welcome_msg),
                              None, FALSE, <<>>)
             ELSE /\ pc' = [pc EXCEPT ![w] = "closed"]
                  /\ ev' = Ev("accept", w, None, <<>>, {}, "SendFailed", TRUE, <<>>)
    /\ session' = [session EXCEPT ![w] = None]
    /\ UNCHANGED <<db, uuids, sid, user_id, peer, bc>>

\* The client's end of the transport goes away (close, crash, network).
ClientClose(w) ==
    /\ pc[w] \in {"accepting", "open", "bcast"}
    /\ peer[w]
    /\ peer' = [peer EXCEPT ![w] = FALSE]
    /\ ev' = Ev("client-close", w, user_id[w], <<>>, {}, None, FALSE, <<>>)
    /\ UNCHANGED <<db, uuids, active_connections, pc, sid, session, user_id, bc>>

\* receive_text() raises WebSocketDisconnect (lines 263-272).
Disconnect(w) ==
    /\ pc[w] = "open"
    /\ ~peer[w]
    /\ Terminate(w, db, user_id[w], "disconnect", <<>>, "WebSocketDisconnect", <<>>)

\* The join branch without db.add_participant (line 240): the join is
\* announced and not stored.
RecvJoin_announces_only(w, message) ==
    /\ pc[w] = "open"
    /\ LET uid == Get(message, "userId", uuid4(w))
           nm == Get(DataOf(message), "name", "Anonymous User")
       IN IF sid[w] \notin DOMAIN active_connections
          THEN Terminate(w, db, uid, "recv", message, "KeyError", <<>>)
          ELSE broadcast(w, db, uid, message,
                         UserJoinedMsg(uid, nm, Cardinality(active_connections[sid[w]])),
                         w)

\* websocket_endpoint, lines 235-253: the join branch.
RecvJoin(w, message) ==
    /\ pc[w] = "open"
    /\ LET uid == Get(message, "userId", uuid4(w))
           nm == Get(DataOf(message), "name", "Anonymous User")
           d == add_participant(db, sid[w], uid, nm)
       IN IF sid[w] \notin DOMAIN active_connections
          THEN Terminate(w, d, uid, "recv", message, "KeyError", <<>>)
          ELSE broadcast(w, d, uid, message,
                         UserJoinedMsg(uid, nm, Cardinality(active_connections[sid[w]])),
                         w)

\* A ping handler that answers through the registry instead of the sender's
\* own websocket: the pong goes to every connection of the session.
RecvPing_to_all(w, message) ==
    /\ pc[w] = "open"
    /\ Return(w, db, user_id[w], message,
              UNION {Deliver(t, PongMsg) :
                       t \in {w} \cup Get(active_connections, sid[w], {})})

\* handle_message, lines 120-125.
RecvPing(w, message) ==
    /\ pc[w] = "open"
    /\ IF peer[w]
       THEN Return(w, db, user_id[w], message, Deliver(w, PongMsg))
       ELSE Terminate(w, db, user_id[w], "recv", message, "SendFailed", <<>>)

\* `user_id or str(uuid.uuid4())` (line 260)
Acting(w) == IF Truthy(user_id[w]) THEN user_id[w] ELSE uuid4(w)

\* handle_message, lines 127-147.
RecvCodeUpdate(w, message) ==
    /\ pc[w] = "open"
    /\ LET s == sid[w]
           has_code == "data" \in DOMAIN message /\ "code" \in DOMAIN message.data
           r == get_session(db, s)
       IN /\ (has_code /\ r.result = "Session") => Len(db.history[s]) < MaxHistory
          /\ IF has_code /\ r.result = "ValidationError"
             THEN Terminate(w, db, user_id[w], "recv", message, "ValidationError", <<>>)
             ELSE broadcast(w,
                            IF has_code /\ r.result = "Session"
                            THEN save_code(db, s, message.data.code, r.language, Acting(w))
                            ELSE db,
                            user_id[w], message, CodeUpdateEvent(Acting(w), message), w)

\* handle_message, lines 149-158.
RecvCursorPosition(w, message) ==
    /\ pc[w] = "open"
    /\ broadcast(w, db, user_id[w], message, CursorEvent(Acting(w), message), w)

\* The language-change branch without `if new_language:` and the store
\* calls: the event is broadcast whatever the payload holds.
RecvLanguageChange_unchecked(w, message) ==
    /\ pc[w] = "open"
    /\ broadcast(w, db, user_id[w], message,
                 LanguageChangedEvent(Acting(w),
                                      Get(DataOf(message), "language", None)), w)

\* handle_message, lines 160-181.  update_session raises ValidationError
\* after it has written a language that is not one of the enum's.
RecvLanguageChange(w, message) ==
    /\ pc[w] = "open"
    /\ LET s == sid[w]
           new_language == Get(DataOf(message), "language", None)
           d1 == update_session(db, s, new_language, None, -1)
       IN IF ~Truthy(new_language)
          THEN Return(w, db, user_id[w], message, {})
          ELSE IF s \in DOMAIN d1.sessions /\ ~ValidSession(d1.sessions[s])
               THEN Terminate(w, d1, user_id[w], "recv", message, "ValidationError", <<>>)
               ELSE /\ s \in DOMAIN db.sessions => Len(db.history[s]) < MaxHistory
                    /\ broadcast(w,
                                 add_history_entry(d1, s, Acting(w), "language-change",
                                                   "Changed language to " \o new_language,
                                                   None),
                                 user_id[w], message,
                                 LanguageChangedEvent(Acting(w), new_language), w)

\* handle_message ending in `else: raise ValueError(msg_type)`.
RecvOther_raises(w, message) ==
    /\ pc[w] = "open"
    /\ Terminate(w, db, user_id[w], "recv", message, "ValueError", <<>>)

\* handle_message: no branch matches the type.
RecvOther(w, message) ==
    /\ pc[w] = "open"
    /\ Return(w, db, user_id[w], message, {})

\* websocket_endpoint, lines 231-235: receive_text() returned a text that
\* json.loads rejects (JSONDecodeError) or that is JSON but not an object
\* (message.get raises AttributeError); `except Exception` runs the cleanup.
RecvMalformed(w, message) ==
    /\ pc[w] = "open"
    /\ Terminate(w, db, user_id[w], "recv", message,
                 IF message.raw = "[]" THEN "AttributeError" ELSE "JSONDecodeError",
                 <<>>)

Next ==
    \/ \E s \in SessionIds, l \in CreateLanguages : CreateSession(s, l, None)
    \/ \E s \in SessionIds, l \in {None, "java"}, t \in {None, "T"} : UpdateSession(s, l, t)
    \/ \E s \in SessionIds : DeleteSession(s)
    \/ \E s \in SessionIds, c \in Codes : SaveCode(s, c, "python")
    \/ \E s \in SessionIds, n \in Limits : GetHistory(s, n)
    \/ \E w \in Conns, s \in SessionIds : Connect(w, s)
    \/ \E w \in Conns : Accepted(w)
    \/ \E w \in Conns : ClientClose(w)
    \/ \E w \in Conns : Disconnect(w)
    \/ \E w \in Conns, m \in JoinMsgs : RecvJoin(w, m)
    \/ \E w \in Conns : RecvPing(w, PingMsg)
    \/ \E w \in Conns, m \in CodeUpdateMsgs : RecvCodeUpdate(w, m)
    \/ \E w \in Conns : RecvCursorPosition(w, CursorMsg)
    \/ \E w \in Conns, m \in LanguageChangeMsgs : RecvLanguageChange(w, m)
    \/ \E w \in Conns : RecvOther(w, OtherMsg)
    \/ \E w \in Conns, m \in MalformedMsgs : RecvMalformed(w, m)
    \/ \E w \in Conns : BcastStep(w)

Spec == Init /\ [][Next]_vars

(***************************************************************************)
(* Scenarios: parts of Next with the inputs narrowed, small enough to be   *)
(* explored exhaustively.                                                  *)
(***************************************************************************)
\* Presence: two connections joining, pinging and leaving while the HTTP
\* handlers create, update, save to and delete the session.
NextPresence ==
    \/ \E s \in SessionIds : CreateSession(s, "javascript", None)
    \/ \E s \in SessionIds : UpdateSession(s, "java", None)
    \/ \E s \in SessionIds : DeleteSession(s)
    \/ \E s \in SessionIds : SaveCode(s, "X", "python")
    \/ \E w \in {"c1", "c2"}, s \in SessionIds : Connect(w, s)
    \/ \E w \in Conns : Accepted(w)
    \/ \E w \in Conns : ClientClose(w) /\ pc[w] # "accepting"
    \/ \E w \in Conns : Disconnect(w)
    \/ \E w \in Conns, m \in JoinMsgs : RecvJoin(w, m)
    \/ \E w \in Conns : RecvPing(w, PingMsg)
    \/ \E w \in Conns : BcastStep(w)

SpecPresence == Init /\ [][NextPresence]_vars

\* The code-update messages that carry code "X".
CodeX == {m \in CodeUpdateMsgs : "code" \in DOMAIN m.data /\ m.data.code = "X"}

\* Fan-out: three connections that send code-update and come and go.
NextFanout ==
    \/ \E s \in SessionIds : CreateSession(s, "javascript", None)
    \/ \E w \in Conns, s \in SessionIds : Connect(w, s)
    \/ \E w \in Conns : Accepted(w)
    \/ \E w \in Conns : ClientClose(w) /\ pc[w] # "accepting"
    \/ \E w \in Conns : Disconnect(w)
    \/ \E w \in Conns, m \in CodeX : RecvCodeUpdate(w, m)
    \/ \E w \in Conns : BcastStep(w)

SpecFanout == Init /\ [][NextFanout]_vars

\* The language-change messages that carry a string outside models.Language.
LanguageRuby ==
    {m \in LanguageChangeMsgs : "data" \in DOMAIN m /\ m.data.language = "ruby"}

\* Editing: the fan-out scenario plus language-change with such a string.
NextEdit ==
    \/ NextFanout
    \/ \E w \in Conns, m \in LanguageRuby : RecvLanguageChange(w, m)

SpecEdit == Init /\ [][NextEdit]_vars

\* Messages: two connections sending every kind of message but join.
NextMessages ==
    \/ \E s \in SessionIds : CreateSession(s, "javascript", None)
    \/ \E s \in SessionIds, n \in Limits : GetHistory(s, n)
    \/ \E w \in {"c1", "c2"}, s \in SessionIds : Connect(w, s)
    \/ \E w \in Conns : Accepted(w)
    \/ \E w \in Conns : ClientClose(w) /\ pc[w] # "accepting"
    \/ \E w \in Conns : Disconnect(w)
    \/ \E w \in Conns, m \in CodeX : RecvCodeUpdate(w, m)
    \/ \E w \in Conns : RecvCursorPosition(w, CursorMsg)
    \/ \E w \in Conns, m \in LanguageChangeMsgs : RecvLanguageChange(w, m)
    \/ \E w \in Conns : RecvOther(w, OtherMsg)
    \/ \E w \in Conns, m \in MalformedMsgs : RecvMalformed(w, m)
    \/ \E w \in Conns : BcastStep(w)

SpecMessages == Init /\ [][NextMessages]_vars

\* Cursor: three connections that send cursor-position and come and go.
NextCursor ==
    \/ \E s \in SessionIds : CreateSession(s, "javascript", None)
    \/ \E w \in Conns, s \in SessionIds : Connect(w, s)
    \/ \E w \in Conns : Accepted(w)
    \/ \E w \in Conns : ClientClose(w) /\ pc[w] # "accepting"
    \/ \E w \in Conns : Disconnect(w)
    \/ \E w \in Conns : RecvCursorPosition(w, CursorMsg)
    \/ \E w \in Conns : BcastStep(w)

SpecCursor == Init /\ [][NextCursor]_vars

\* Closing: two connections whose clients may go away at any moment, the
\* handshake included.  The event loop resumes every coroutine that can
\* run (weak fairness of the handshake and of a suspended broadcast), and a
\* closed transport holds finitely many unread messages, so receive_text()
\* does raise in the end (strong fairness of the disconnect).
NextClosing ==
    \/ \E s \in SessionIds : CreateSession(s, "javascript", None)
    \/ \E w \in {"c1", "c2"}, s \in SessionIds : Connect(w, s)
    \/ \E w \in Conns : Accepted(w)
    \/ \E w \in Conns : ClientClose(w)
    \/ \E w \in Conns : Disconnect(w)
    \/ \E w \in Conns : RecvCursorPosition(w, CursorMsg)
    \/ \E w \in Conns : BcastStep(w)

SpecClosing ==
    /\ Init
    /\ [][NextClosing]_vars
    /\ \A w \in Conns : WF_vars(Accepted(w))
    /\ \A w \in Conns : WF_vars(BcastStep(w))
    /\ \A w \in Conns : SF_vars(Disconnect(w))

\* Code: the HTTP handlers create, update, save to and delete the session
\* while two connections send every code-update.
NextCode ==
    \/ \E s \in SessionIds, l \in CreateLanguages : CreateSession(s, l, None)
    \/ \E s \in SessionIds : UpdateSession(s, "java", None)
    \/ \E s \in SessionIds : DeleteSession(s)
    \/ \E s \in SessionIds, c \in Codes : SaveCode(s, c, "python")
    \/ \E w \in {"c1", "c2"}, s \in SessionIds : Connect(w, s)
    \/ \E w \in Conns : Accepted(w)
    \/ \E w \in Conns, m \in CodeUpdateMsgs : RecvCodeUpdate(w, m)
    \/ \E w \in Conns : BcastStep(w)

SpecCode == Init /\ [][NextCode]_vars

\* The join messages of user "u1" and of the empty user id.
JoinSome == {m \in JoinMsgs : m.userId \in {"u1", ""} /\ m.data.name = "Alice"}

\* Attribution: two connections that join or not, send code-update and the
\* language-change with a string outside the enum, and come and go.
NextAttribution ==
    \/ \E s \in SessionIds : CreateSession(s, "javascript", None)
    \/ \E w \in {"c1", "c2"}, s \in SessionIds : Connect(w, s)
    \/ \E w \in Conns : Accepted(w)
    \/ \E w \in Conns : ClientClose(w) /\ pc[w] # "accepting"
    \/ \E w \in Conns : Disconnect(w)
    \/ \E w \in Conns, m \in JoinSome : RecvJoin(w, m)
    \/ \E w \in Conns, m \in CodeX : RecvCodeUpdate(w, m)
    \/ \E w \in Conns, m \in LanguageRuby : RecvLanguageChange(w, m)
    \/ \E w \in Conns : BcastStep(w)

SpecAttribution == Init /\ [][NextAttribution]_vars

\* The code-update messages whose payload has no code field.
CodeAbsent == {m \in CodeUpdateMsgs : "code" \notin DOMAIN m.data}

\* Changes: three connections that send code-update without code and come
\* and go.
NextChanges ==
    \/ \E s \in SessionIds : CreateSession(s, "javascript", None)
    \/ \E w \in Conns, s \in SessionIds : Connect(w, s)
    \/ \E w \in Conns : Accepted(w)
    \/ \E w \in Conns : ClientClose(w) /\ pc[w] # "accepting"
    \/ \E w \in Conns : Disconnect(w)
    \/ \E w \in Conns, m \in CodeAbsent : RecvCodeUpdate(w, m)
    \/ \E w \in Conns : BcastStep(w)

SpecChanges == Init /\ [][NextChanges]_vars

\* Two session ids the store generates.
TwoSessions == {"s1", "s2"}

\* Isolation: two sessions; connections c1 and c3 open on the first and c2
\* on the second and join as the same user; c1 and c2 send code-update and
\* may go away, c2 and c3 send language-change.
NextIsolation ==
    \/ \E s \in TwoSessions : CreateSession(s, "javascript", None)
    \/ Connect("c1", "s1") \/ Connect("c2", "s2") \/ Connect("c3", "s1")
    \/ \E w \in Conns : Accepted(w)
    \/ \E w \in {"c1", "c2"} : ClientClose(w) /\ pc[w] # "accepting"
    \/ \E w \in Conns : Disconnect(w)
    \/ \E w \in Conns : RecvJoin(w, JoinMsg("u1", "Alice"))
    \/ \E w \in {"c1", "c2"}, m \in CodeX : RecvCodeUpdate(w, m)
    \/ \E w \in {"c2", "c3"}, m \in LanguageRuby : RecvLanguageChange(w, m)
    \/ \E w \in Conns : BcastStep(w)

SpecIsolation == Init /\ [][NextIsolation]_vars

\* The language-change messages that carry a non-empty language.
LanguageGiven ==
    {m \in LanguageChangeMsgs : "data" \in DOMAIN m /\ Truthy(m.data.language)}

\* Deleted: a session that is created and deleted while two connections
\* join, send code-update and language-change, and come and go.
NextDeleted ==
    \/ \E s \in SessionIds : CreateSession(s, "javascript", None)
    \/ \E s \in SessionIds : DeleteSession(s)
    \/ \E w \in {"c1", "c2"}, s \in SessionIds : Connect(w, s)
    \/ \E w \in Conns : Accepted(w)
    \/ \E w \in Conns : ClientClose(w) /\ pc[w] # "accepting"
    \/ \E w \in Conns : Disconnect(w)
    \/ \E w \in Conns : RecvJoin(w, JoinMsg("u1", "Alice"))
    \/ \E w \in Conns, m \in CodeX : RecvCodeUpdate(w, m)
    \/ \E w \in Conns, m \in LanguageGiven : RecvLanguageChange(w, m)
    \/ \E w \in Conns : BcastStep(w)

SpecDeleted == Init /\ [][NextDeleted]_vars

\* Order: three connections on a session that may be deleted; c1 and c2
\* join as the same user, c2 and c3 send code-update, c3 sends
\* language-change, and c1 may go away.
NextOrder ==
    \/ \E s \in SessionIds : CreateSession(s, "javascript", None)
    \/ \E s \in SessionIds : DeleteSession(s)
    \/ \E w \in Conns, s \in SessionIds : Connect(w, s)
    \/ \E w \in Conns : Accepted(w)
    \/ ClientClose("c1") /\ pc["c1"] # "accepting"
    \/ \E w \in Conns : Disconnect(w)
    \/ \E w \in {"c1", "c2"} : RecvJoin(w, JoinMsg("u1", "Alice"))
    \/ \E w \in {"c2", "c3"}, m \in CodeX : RecvCodeUpdate(w, m)
    \/ \E m \in LanguageGiven : RecvLanguageChange("c3", m)
    \/ \E w \in Conns : BcastStep(w)

SpecOrder == Init /\ [][NextOrder]_vars

(***************************************************************************)
(* Properties                                                              *)
(***************************************************************************)
\* The connections registered for session s.
Registered(s) == Get(active_connections, s, {})

\* No two entries of the roster have the same userId.
NoDuplicateUserIds(roster) ==
    \A i, j \in DOMAIN roster : roster[i].userId = roster[j].userId => i = j

\* The activeParticipants field of every stored session.
Counts(d) == [s \in DOMAIN d.sessions |-> d.sessions[s].activeParticipants]

\* C1: in every reachable state, every session's activeParticipants equals
\* the number of entries of its roster, whatever interleaving of joins,
\* disconnects, updates and saves led there.
C1_ActiveParticipantsIsRosterSize ==
    \A s \in DOMAIN db.sessions :
        db.sessions[s].activeParticipants = Len(db.participants[s])

\* C1, reached: a joined connection has just been cleaned up, another
\* participant is left, and the session has been updated and saved to.
C1_Witness ==
    /\ ev.op = "disconnect"
    /\ ev.uid = "u1"
    /\ \E s \in DOMAIN db.sessions :
          /\ Len(db.participants[s]) = 1
          /\ db.sessions[s].activeParticipants = 1
          /\ db.sessions[s].language = "java"
          /\ db.history[s] # <<>>

\* C2: when the handling of a code-update carrying code X by connection C
\* ends, every other connection that was registered when the fan-out began,
\* is still registered and whose transport is up has been sent exactly one
\* code-update event with data.code = X, and C has been sent none.
C2_CodeUpdateReachesEveryOther ==
    (ev.fin /\ ev.op \in {"recv", "bcast"} /\ ev.msg \in CodeX) =>
        LET C == ev.conn
            it == ev.bcast
            targets == {t \in Registered(sid[C]) \ {C} :
                          peer[t] /\ (it # <<>> => t \in it.snap)}
        IN /\ \A t \in targets :
                 /\ it # <<>>
                 /\ it.message.type = "code-update"
                 /\ it.message.data.code = ev.msg.data.code
                 /\ Cardinality({i \in DOMAIN it.seen :
                                   it.seen[i].conn = t /\ it.seen[i].ok}) = 1
           /\ it # <<>> => \A i \in DOMAIN it.seen : it.seen[i].conn # C

\* C3: a step that handles a code-update with code X for an existing session
\* leaves getCode returning X and the history one entry longer, the new last
\* entry being of change type "snapshot".
C3_CodeUpdateIsSaved ==
    [][(ev'.op = "recv" /\ ev'.msg \in CodeX /\ sid[ev'.conn] \in DOMAIN db.sessions) =>
          LET s == sid[ev'.conn]
          IN /\ s \in DOMAIN db'.sessions
             /\ get_code(db', s).code = ev'.msg.data.code
             /\ Len(db'.history[s]) = Len(db.history[s]) + 1
             /\ SubSeq(db'.history[s], 1, Len(db.history[s])) = db.history[s]
             /\ db'.history[s][Len(db'.history[s])].changeType = "snapshot"]_vars

\* C4: right after saveCode(id, code, language) on an existing session,
\* getCode(id) returns that code and that language.
C4_SaveThenGetRoundTrip ==
    (ev.op = "save" /\ ev.msg.sessionId \in DOMAIN db.sessions) =>
        /\ get_code(db, ev.msg.sessionId).code = ev.msg.code
        /\ get_code(db, ev.msg.sessionId).language = ev.msg.language

\* C5: once the only connection that was ever opened has been closed and
\* cleaned up, no roster holds an entry (every entry there was one it joined
\* with).
C5_ClosedConnectionLeavesNoEntry ==
    (pc["c1"] = "closed" /\ pc["c2"] = "new" /\ pc["c3"] = "new") =>
        \A s \in DOMAIN db.sessions : db.participants[s] = <<>>

\* C6: when the cleanup of a connection that had joined as U has run after a
\* disconnect, every remaining registered connection whose transport is up
\* has been sent a user-left event with userId U and the roster's new size.
C6_UserLeftBroadcast ==
    (ev.op = "disconnect" /\ ev.uid # None /\ sid[ev.conn] \in DOMAIN db.sessions) =>
        \A t \in Registered(sid[ev.conn]) :
            peer[t] =>
                \E o \in ev.out :
                    /\ o.to = t
                    /\ o.msg.type = "user-left"
                    /\ o.msg.userId = ev.uid
                    /\ o.msg.data.participantCount = Len(db.participants[sid[ev.conn]])

\* C7: every step of a connection that has not sent a join (handshake,
\* ping, the client's close, cleanup) leaves every roster and every
\* activeParticipants as they were and delivers no user-joined and no
\* user-left event.
C7_NeverJoinedLeavesRosterAlone ==
    [][\A w \in Conns :
          (ev'.conn = w /\ user_id[w] = None /\ ev'.uid = None) =>
              /\ db'.participants = db.participants
              /\ Counts(db') = Counts(db)
              /\ \A o \in ev'.out : o.msg.type \notin {"user-joined", "user-left"}]_vars

\* C7, reached: a connection that never joined has just been cleaned up
\* while a participant is in the roster and another connection is live.
C7_Witness ==
    /\ ev.op = "disconnect"
    /\ ev.conn = "c2"
    /\ ev.uid = None
    /\ pc["c1"] = "open"
    /\ peer["c1"]
    /\ user_id["c1"] = "u1"
    /\ \E s \in DOMAIN db.sessions : Len(db.participants[s]) = 1

\* C8: every user-joined event delivered in the step that handles a join with
\* user id U and name N goes to a connection other than the joiner and
\* carries userId U, data.name N and data.participantCount equal to the
\* roster size after the join.
C8_UserJoinedCarriesRosterSize ==
    (ev.op = "recv" /\ sid[ev.conn] \in DOMAIN db.sessions) =>
        \A o \in ev.out :
            o.msg.type = "user-joined" =>
                /\ o.to # ev.conn
                /\ o.msg.userId = ev.msg.userId
                /\ o.msg.data.name = ev.msg.data.name
                /\ o.msg.data.participantCount = Len(db.participants[sid[ev.conn]])

\* C9: no roster holds two entries with the same user id, and adding a user
\* id that is already in the roster replaces its entry: the roster's size
\* and activeParticipants stay as they were and the new entry is the last.
C9_RosterKeyedByUserId ==
    \A s \in DOMAIN db.sessions :
        /\ NoDuplicateUserIds(db.participants[s])
        /\ \A m \in JoinMsgs :
              (\E i \in DOMAIN db.participants[s] :
                    db.participants[s][i].userId = m.userId) =>
                  LET d == add_participant(db, s, m.userId, m.data.name)
                      roster == d.participants[s]
                  IN /\ Len(roster) = Len(db.participants[s])
                     /\ d.sessions[s].activeParticipants = db.sessions[s].activeParticipants
                     /\ NoDuplicateUserIds(roster)
                     /\ roster[Len(roster)] = [userId |-> m.userId, name |-> m.data.name]

\* C9, reached: the second connection has just joined with the user id the
\* first one joined with, and the roster holds the one, newer entry.
C9_Witness ==
    /\ ev.op = "recv"
    /\ ev.conn = "c2"
    /\ ev.msg = JoinMsg("u1", "Bob")
    /\ pc["c1"] = "open"
    /\ user_id["c1"] = "u1"
    /\ \E s \in DOMAIN db.sessions :
          db.participants[s] = <<[userId |-> "u1", name |-> "Bob"]>>

\* The step handles a ping from connection w.
PingStep(w) == ev'.op = "recv" /\ ev'.conn = w /\ ev'.msg = PingMsg

\* One pong to w, nothing to anyone else, store and registry untouched.
PongOnly(w) ==
    /\ ev'.out = {[to |-> w, msg |-> PongMsg]}
    /\ db' = db
    /\ active_connections' = active_connections

C11_UnknownSessionRejected ==
    [][\A w \in Conns :
          /\ (ev'.op = "connect" /\ ev'.conn = w /\ sid'[w] \notin DOMAIN db.sessions) =>
                /\ ev'.exc = "close-1008"
                /\ ev'.out = {}
                /\ pc'[w] = "closed"
                /\ db' = db
                /\ active_connections' = active_connections
                /\ \A s \in DOMAIN active_connections' : w \notin active_connections'[s]
          /\ pc[w] = "closed" =>
                /\ pc'[w] = "closed"
                /\ ev'.conn # w
                /\ \A s \in DOMAIN active_connections' :
                      w \in active_connections'[s] => w \in Registered(s)]_vars

\* C11, reached: the second connection has just been rejected on a deleted
\* session while the first is still registered for it.
C11_Witness ==
    /\ ev.op = "connect"
    /\ ev.conn = "c2"
    /\ ev.exc = "close-1008"
    /\ pc["c2"] = "closed"
    /\ "c1" \in Registered(sid["c2"])
    /\ sid["c2"] \in uuids

\* C12: the welcome delivered by the handshake goes to the new connection
\* and carries the session id and the code, the language and the roster
\* (user id and name pairs) that the store holds for the session at the
\* moment the welcome is built.
C12_WelcomeMatchesStore ==
    (ev.op = "accept" /\ sid[ev.conn] \in DOMAIN db.sessions) =>
        \A o \in ev.out :
            /\ o.to = ev.conn
            /\ o.msg.type = "welcome"
            /\ o.msg.data.sessionId = sid[ev.conn]
            /\ o.msg.data.currentCode = db.sessions[sid[ev.conn]].code
            /\ o.msg.data.language = db.sessions[sid[ev.conn]].language
            /\ o.msg.data.participants = db.participants[sid[ev.conn]]

\* C13: for every session with no code snapshot (nothing was ever saved),
\* getCode returns the placeholder text of the session's language, which is
\* not the empty string.
C13_PlaceholderOfSessionLanguage ==
    \A s \in DOMAIN db.sessions :
        db.code_snapshots[s] = <<>> =>
            /\ get_code(db, s).code = Placeholder(db.sessions[s].language)
            /\ get_code(db, s).code # ""

\* C14: getHistory(id, limit) on an existing session returns at most limit
\* entries, namely the last min(limit, length) entries of the session's log
\* in the order of the log.
C14_HistoryIsLastEntriesInOrder ==
    (ev.op = "history" /\ ev.msg.found) =>
        LET h == db.history[ev.msg.sessionId]
            r == ev.msg.history
            n == IF ev.msg.limit < Len(h) THEN ev.msg.limit ELSE Len(h)
        IN /\ Len(r) <= ev.msg.limit
           /\ Len(r) = n
           /\ \A i \in 1..n : r[i] = h[Len(h) - n + i]

\* C14, reached: a log of two different entries has just been read with
\* limit 1.
C14_Witness ==
    /\ ev.op = "history"
    /\ ev.msg.found
    /\ ev.msg.limit = 1
    /\ Len(db.history[ev.msg.sessionId]) = 2
    /\ db.history[ev.msg.sessionId][1] # db.history[ev.msg.sessionId][2]

\* The fan-out that ended in this step reached every other connection: each
\* connection other than the sender that was registered when it began, is
\* still registered and has its transport up was sent the message exactly
\* once, and the sender was sent nothing.
FanoutReachedAll ==
    LET C == ev.conn
        it == ev.bcast
        targets == {t \in Registered(sid[C]) \ {C} :
                      peer[t] /\ (it # <<>> => t \in it.snap)}
    IN /\ \A t \in targets :
             /\ it # <<>>
             /\ Cardinality({i \in DOMAIN it.seen :
                               it.seen[i].conn = t /\ it.seen[i].ok}) = 1
       /\ it # <<>> => \A i \in DOMAIN it.seen : it.seen[i].conn # C

\* C15: the step that handles a language-change carrying a non-empty
\* language L for an existing session sets the session's language to L and
\* appends exactly one history entry of change type "language-change"; and
\* when the handling ends every other live connection has been sent one
\* language-changed event with data.language L and the sender none.
C15_LanguageChangeApplied ==
    [][/\ (ev'.op = "recv" /\ ev'.msg \in LanguageGiven
             /\ sid[ev'.conn] \in DOMAIN db.sessions) =>
            LET s == sid[ev'.conn]
            IN /\ db'.sessions[s].language = ev'.msg.data.language
               /\ Len(db'.history[s]) = Len(db.history[s]) + 1
               /\ SubSeq(db'.history[s], 1, Len(db.history[s])) = db.history[s]
               /\ db'.history[s][Len(db'.history[s])].changeType = "language-change"
       /\ (ev'.fin /\ ev'.op \in {"recv", "bcast"} /\ ev'.msg \in LanguageGiven) =>
            /\ FanoutReachedAll'
            /\ ev'.bcast # <<>> =>
                  /\ ev'.bcast.message.type = "language-changed"
                  /\ ev'.bcast.message.data.language = ev'.msg.data.language]_vars

\* C16: the step that handles a language-change whose payload has no
\* language (no data, or an empty language) changes nothing in the store or
\* the presence sets, sends nothing, and leaves the channel open.
C16_LanguageChangeWithoutLanguageIgnored ==
    [][(ev'.op = "recv" /\ ev'.msg \in LanguageChangeMsgs \ LanguageGiven) =>
          /\ db' = db
          /\ active_connections' = active_connections
          /\ ev'.out = {}
          /\ ev'.exc = None
          /\ pc'[ev'.conn] = "open"]_vars

\* C16, reached: a language-change without data has just been handled while
\* another connection is live and the log is not empty.
C16_Witness ==
    /\ ev.op = "recv"
    /\ ev.msg = [type |-> "language-change"]
    /\ ev.conn = "c1"
    /\ pc["c2"] = "open"
    /\ peer["c2"]
    /\ \E s \in DOMAIN db.sessions : db.history[s] # <<>>

\* C17: no step of the handling of a cursor-position message changes the
\* store, and when the handling ends every other live connection has been
\* sent the event once, with the payload as it was received, and the sender
\* none.
C17_CursorPositionRelayed ==
    [][(ev'.op \in {"recv", "bcast"} /\ ev'.msg = CursorMsg) =>
          /\ db' = db
          /\ ev'.fin =>
                /\ FanoutReachedAll'
                /\ ev'.bcast # <<>> =>
                      /\ ev'.bcast.message.type = "cursor-position"
                      /\ ev'.bcast.message.data = CursorMsg.data]_vars

\* C18: the step that handles a message of an unrecognized type changes
\* nothing in the store or the presence sets, sends nothing, raises nothing,
\* and leaves the channel open at its next receive.
C18_UnknownTypeIgnored ==
    [][(ev'.op = "recv" /\ ev'.msg = OtherMsg) =>
          /\ db' = db
          /\ active_connections' = active_connections
          /\ ev'.out = {}
          /\ ev'.exc = None
          /\ pc'[ev'.conn] = "open"]_vars

\* C18, reached: a message of an unrecognized type has just been handled by
\* a registered connection while another connection is live and the log is
\* not empty.
C18_Witness ==
    /\ ev.op = "recv"
    /\ ev.msg = OtherMsg
    /\ ev.conn = "c1"
    /\ pc["c1"] = "open"
    /\ "c1" \in Registered(sid["c1"])
    /\ pc["c2"] = "open"
    /\ peer["c2"]
    /\ \E s \in DOMAIN db.sessions : db.history[s] # <<>>

\* C19: the step that handles a malformed message (a text that is not JSON,
\* or JSON that is not an object) leaves the channel open and registered and
\* the store, its roster entry included, as it was.
C19_MalformedMessageIgnored ==
    [][(ev'.op = "recv" /\ ev'.msg \in MalformedMsgs) =>
          /\ pc'[ev'.conn] = "open"
          /\ ev'.exc = None
          /\ active_connections' = active_connections
          /\ db' = db]_vars

\* The connections to which a send of the fan-out `it` failed.
FailedSends(it) == {it.seen[i].conn : i \in {j \in DOMAIN it.seen : ~it.seen[j].ok}}

\* C20: when a fan-out in which a send failed comes to its end, it has
\* raised nothing and the sender's channel is open, every other live
\* connection has been sent the message once, and the step removes from the
\* session's presence set exactly the connections whose send failed.
C20_FailedSendOnlyPrunes ==
    [][(ev'.fin /\ ev'.bcast # <<>> /\ FailedSends(ev'.bcast) # {}) =>
          /\ ev'.exc = None
          /\ pc'[ev'.conn] = "open"
          /\ FanoutReachedAll'
          /\ Get(active_connections', sid[ev'.conn], {}) =
                Registered(sid[ev'.conn]) \ FailedSends(ev'.bcast)]_vars

\* C21: every fan-out ends without an error, having sent the message
\* exactly once to every connection of the set as it was when the fan-out
\* began (the excluded sender apart) whose transport is up, and to no
\* connection outside that set.
C21_FanoutOverFixedSnapshot ==
    (ev.fin /\ ev.bcast # <<>>) =>
        LET it == ev.bcast
        IN /\ ev.exc = None
           /\ \A t \in it.snap \ {it.exclude} :
                 peer[t] =>
                     Cardinality({i \in DOMAIN it.seen :
                                    it.seen[i].conn = t /\ it.seen[i].ok}) = 1
           /\ \A i \in DOMAIN it.seen : it.seen[i].conn \in it.snap \ {it.exclude}

\* C22: every code-update carrying code that is handled for an existing
\* session, also while another connection's code-update is still being
\* fanned out, appends exactly one snapshot and one history entry with that
\* code and leaves the session's code equal to it, the code of the newest
\* snapshot; no other step of a connection changes snapshots or code.
C22_CodeUpdatesPersistedAtomically ==
    [][\A s \in DOMAIN db.sessions \cap DOMAIN db'.sessions :
          IF ev'.op = "recv" /\ ev'.msg \in CodeX /\ sid[ev'.conn] = s
          THEN /\ Len(db'.code_snapshots[s]) = Len(db.code_snapshots[s]) + 1
               /\ SubSeq(db'.code_snapshots[s], 1, Len(db.code_snapshots[s])) =
                     db.code_snapshots[s]
               /\ db'.code_snapshots[s][Len(db'.code_snapshots[s])].code = ev'.msg.data.code
               /\ db'.sessions[s].code = ev'.msg.data.code
               /\ Len(db'.history[s]) = Len(db.history[s]) + 1
               /\ db'.history[s][Len(db'.history[s])].codeSnapshot = ev'.msg.data.code
          ELSE ev'.conn \in Conns =>
                  /\ db'.code_snapshots[s] = db.code_snapshots[s]
                  /\ db'.sessions[s].code = db.sessions[s].code]_vars

\* Ids that are not in the store: deleted or not yet created ones, and one
\* that is never created.
UnknownIds == (SessionIds \cup {"s0"}) \ DOMAIN db.sessions

ProcessingErrors ==
    {"SendFailed", "KeyError", "RuntimeError", "ValidationError",
     "JSONDecodeError", "AttributeError"}

\* C24: the step in which a processing error ends a channel's receive loop
\* removes the connection from the presence set, leaves no roster entry for
\* the user id it had joined with, closes the channel, and leaves every
\* other connection with its channel and its registration as they were.
C24_ProcessingErrorCleansUpAlone ==
    [][(ev'.op \in {"recv", "bcast"} /\ ev'.exc \in ProcessingErrors) =>
          LET w == ev'.conn
              s == sid[w]
          IN /\ pc'[w] = "closed"
             /\ w \notin Get(active_connections', s, {})
             /\ (ev'.uid # None /\ s \in DOMAIN db'.sessions) =>
                   \A i \in DOMAIN db'.participants[s] :
                       db'.participants[s][i].userId # ev'.uid
             /\ \A x \in Conns \ {w} :
                   /\ pc'[x] = pc[x]
                   /\ x \in Get(active_connections', s, {}) <=> x \in Registered(s)]_vars

\* C25: whenever the client of a connection that is being accepted or is
\* in its receive loop has gone away, the connection's coroutine eventually
\* ends and the connection is eventually in no presence set.
C25_ClosedPeerIsReleased ==
    \A w \in Conns :
        (pc[w] \in {"accepting", "open", "bcast"} /\ ~peer[w])
            ~> (pc[w] = "closed"
                  /\ \A s \in DOMAIN active_connections : w \notin active_connections[s])

\* C26: every message delivered carries a type, a timestamp and a data
\* object, and the messages about an acting party (user-joined, user-left,
\* code-update, cursor-position, language-changed) carry a userId as well.
C26_OutboundEnvelope ==
    \A o \in ev.out :
        /\ {"type", "timestamp", "data"} \subseteq DOMAIN o.msg
        /\ o.msg.type \in {"user-joined", "user-left", "code-update",
                           "cursor-position", "language-changed"} =>
              "userId" \in DOMAIN o.msg

\* C27: a session's code field is the code of its most recently appended
\* snapshot; a session without a snapshot holds the placeholder written at
\* its creation, whatever has happened to its language since.
C27_CodeIsLatestSnapshot ==
    [][\A s \in DOMAIN db'.sessions :
         LET snaps == db'.code_snapshots[s]
         IN IF snaps # <<>>
            THEN db'.sessions[s].code = snaps[Len(snaps)].code
            ELSE IF s \in DOMAIN db.sessions
                 THEN db'.sessions[s].code = db.sessions[s].code
                 ELSE db'.sessions[s].code = Placeholder(db'.sessions[s].language)]_vars

\* C27: two snapshots of different code were saved, the field holds the
\* newer one.
C27_Witness ==
    \E s \in DOMAIN db.sessions :
        /\ Len(db.code_snapshots[s]) = 2
        /\ db.code_snapshots[s][1].code # db.code_snapshots[s][2].code
        /\ db.sessions[s].code = db.code_snapshots[s][2].code

\* C28: the presence registry never maps a session id to an empty set of
\* connections: removing the last connection of a session, by the cleanup
\* of a closed channel or by the pruning of a broadcast, drops the key.
C28_NoEmptyConnectionSet ==
    \A s \in DOMAIN active_connections : active_connections[s] # {}

\* C29: every session's language is one of javascript, python, java, cpp,
\* also after a language-change message with any string a client supplies,
\* so that get_session on an existing session yields a Session.
C29_LanguageStaysInEnum ==
    \A s \in DOMAIN db.sessions :
        /\ db.sessions[s].language \in Language
        /\ get_session(db, s).result = "Session"

\* C30: a code-update carrying code, handled for an existing session, is
\* saved with the session's language of that moment and under the sending
\* connection's user id, the id it joined with or a fresh one if it never
\* joined; the snapshot, the history entry and the event that is broadcast
\* carry that same id.
C30_CodeUpdateAttribution ==
    [][(ev'.op = "recv" /\ ev'.msg \in CodeX /\ sid[ev'.conn] \in DOMAIN db.sessions) =>
         LET w == ev'.conn
             s == sid[w]
             id == IF user_id[w] # None THEN user_id[w] ELSE uuid4(w)
             snaps == db'.code_snapshots[s]
             hist == db'.history[s]
             sent == IF pc'[w] = "bcast" THEN {bc'[w].message}
                     ELSE IF ev'.bcast # <<>> THEN {ev'.bcast.message} ELSE {}
         IN /\ s \in DOMAIN db'.sessions
            /\ Len(snaps) = Len(db.code_snapshots[s]) + 1
            /\ Len(hist) = Len(db.history[s]) + 1
            /\ snaps[Len(snaps)].language = db.sessions[s].language
            /\ snaps[Len(snaps)].userId = id
            /\ hist[Len(hist)].userId = id
            /\ \A m \in sent : m.userId = id]_vars

\* C31: no step of the handling of a code-update without a code field adds a
\* snapshot or a history entry or changes the session's code, and when the
\* handling ends every other live connection has been sent the code-update
\* event once, with the payload as it was received, and the sender none.
C31_CodeUpdateWithoutCodeRelayed ==
    [][(ev'.op \in {"recv", "bcast"} /\ ev'.msg \in CodeAbsent) =>
          /\ db'.code_snapshots = db.code_snapshots
          /\ db'.history = db.history
          /\ \A s \in DOMAIN db.sessions :
                s \in DOMAIN db'.sessions /\ db'.sessions[s].code = db.sessions[s].code
          /\ ev'.fin =>
                /\ FanoutReachedAll'
                /\ ev'.bcast # <<>> =>
                      /\ ev'.bcast.message.type = "code-update"
                      /\ ev'.bcast.message.data = ev'.msg.data]_vars

\* C32: while a session exists its history log only grows at the end: in
\* every step the log before is a prefix of the log after, also in a step
\* that reads the log with a limit.
C32_HistoryAppendOnly ==
    [][\A s \in DOMAIN db.history \cap DOMAIN db'.history :
          /\ Len(db'.history[s]) >= Len(db.history[s])
          /\ SubSeq(db'.history[s], 1, Len(db.history[s])) = db.history[s]]_vars

\* C32, reached: a log of two entries of different kinds has just been read
\* with a limit that returns fewer entries than it holds.
C32_Witness ==
    /\ ev.op = "history"
    /\ ev.msg.found
    /\ Len(ev.msg.history) < Len(db.history[ev.msg.sessionId])
    /\ \E i, j \in DOMAIN db.history[ev.msg.sessionId] :
          /\ i < j
          /\ db.history[ev.msg.sessionId][i].changeType = "snapshot"
          /\ db.history[ev.msg.sessionId][j].changeType = "language-change"

\* The lifecycle state of a connection as the endpoint distinguishes it: the
\* handshake, the receive loop with `user_id` falsy or truthy (the tests of
\* lines 260, 271 and 283), the coroutine ended.
LifecycleOf(p, u) ==
    CASE p = "new" -> 0
      [] p = "accepting" -> 1
      [] p \in {"open", "bcast"} /\ ~Truthy(u) -> 2
      [] p \in {"open", "bcast"} /\ Truthy(u) -> 3
      [] p = "closed" -> 4

Lifecycle(w) == LifecycleOf(pc[w], user_id[w])

\* C33: a connection only moves forward through Connecting, Connected
\* (anonymous), Connected (identified), Closed: no step takes it back, the
\* handling of a join leaves it identified unless it closes it, whatever
\* user id the client supplied, and a closed channel handles no message.
C33_LifecycleOnlyForward ==
    [][/\ \A w \in Conns : LifecycleOf(pc'[w], user_id'[w]) >= Lifecycle(w)
       /\ (ev'.op = "recv" /\ ev'.msg \in JoinMsgs) =>
             LifecycleOf(pc'[ev'.conn], user_id'[ev'.conn]) \in {3, 4}
       /\ ev'.op \in {"recv", "bcast", "disconnect"} => Lifecycle(ev'.conn) \in {2, 3}]_vars

\* C34: once every connection that was opened has closed and its cleanup
\* has run, every existing session's roster is empty and its
\* activeParticipants is 0, whatever joins those connections sent.
C34_AllClosedLeavesEmptyRoster ==
    ((\A w \in Conns : pc[w] \in {"new", "closed"}) /\ (\E w \in Conns : pc[w] = "closed")) =>
        \A s \in DOMAIN db.sessions :
            /\ db.participants[s] = <<>>
            /\ db.sessions[s].activeParticipants = 0

\* C35: while a connection that joined with user id U is in its receive
\* loop on an existing session, the roster of that session holds an entry
\* for U, also after another connection that joined with the same U has
\* disconnected.
C35_OpenJoinedConnectionOnRoster ==
    \A w \in Conns :
        (pc[w] \in {"open", "bcast"} /\ user_id[w] # None /\ sid[w] \in DOMAIN db.sessions) =>
            \E i \in DOMAIN db.participants[sid[w]] :
                db.participants[sid[w]][i].userId = user_id[w]

\* C36: a connection whose channel has terminated, by a disconnect, by a
\* processing error or by a failed send of the welcome during the handshake,
\* is a member of no presence set.
C36_TerminatedIsUnregistered ==
    \A w \in Conns :
        pc[w] = "closed" =>
            \A s \in DOMAIN active_connections : w \notin active_connections[s]

\* C37: every connection whose receive loop is running (waiting for its
\* next message or fanning one out) is a member of its session's presence
\* set, hence a target of the broadcasts of the others.
C37_RunningLoopIsRegistered ==
    \A w \in Conns :
        pc[w] \in {"open", "bcast"} => w \in Registered(sid[w])

\* C37, amended: every connection whose receive loop is running and whose
\* transport is up is a member of its session's presence set; a connection
\* leaves the set before its loop ends only by the pruning of a broadcast
\* whose send to it failed.
C37_LiveRunningLoopIsRegistered ==
    \A w \in Conns :
        (pc[w] \in {"open", "bcast"} /\ peer[w]) => w \in Registered(sid[w])

\* C37, reached: a fan-out has just ended and pruned a connection whose
\* loop had not ended, while the sender and another connection with its
\* transport up are still registered.
C37_Witness ==
    /\ ev.fin /\ ev.exc = None /\ ev.bcast # <<>>
    /\ \E i \in DOMAIN ev.bcast.seen :
          /\ ~ev.bcast.seen[i].ok
          /\ pc[ev.bcast.seen[i].conn] = "open"
          /\ ev.bcast.seen[i].conn \notin Registered(sid[ev.conn])
    /\ \E w \in Registered(sid[ev.conn]) \ {ev.conn} : pc[w] = "open" /\ peer[w]
    /\ ev.conn \in Registered(sid[ev.conn])

\* C38: sessions are isolated: a step of a connection of session A delivers
\* nothing to a connection that is not one of A's, and leaves the session
\* record (code, language, count), the snapshots, the roster, the history
\* and the presence set of every other session B as they were.
C38_SessionsIsolated ==
    [][ev'.conn \in Conns =>
          LET A == sid'[ev'.conn]
          IN /\ \A o \in ev'.out : sid[o.to] = A
             /\ \A B \in (DOMAIN db.sessions \cup DOMAIN db'.sessions
                            \cup DOMAIN active_connections
                            \cup DOMAIN active_connections') \ {A} :
                   /\ B \in DOMAIN db'.sessions <=> B \in DOMAIN db.sessions
                   /\ B \in DOMAIN db.sessions =>
                         /\ db'.sessions[B] = db.sessions[B]
                         /\ db'.code_snapshots[B] = db.code_snapshots[B]
                         /\ db'.participants[B] = db.participants[B]
                         /\ db'.history[B] = db.history[B]
                   /\ B \in DOMAIN active_connections' <=> B \in DOMAIN active_connections
                   /\ Get(active_connections', B, {}) = Registered(B)]_vars

\* C38, reached: a fan-out in one session has just delivered an event
\* while a connection that joined as the same user is registered under
\* another session whose roster holds it.
C38_Witness ==
    /\ ev.op \in {"recv", "bcast"}
    /\ ev.out # {}
    /\ \E x \in Conns :
          /\ sid[x] \in DOMAIN db.sessions
          /\ sid[x] # sid[ev.conn]
          /\ x \in Registered(sid[x])
          /\ user_id[x] = "u1" /\ user_id[ev.conn] = "u1"
          /\ db.participants[sid[x]] # <<>>

\* C39: once a session is deleted, no step that handles a join, a
\* code-update or a language-change of a connection still open on it
\* creates store state for its id (get, getCode, listParticipants and
\* getHistory stay absent), and no such step ends the channel with an error.
C39_DeletedSessionStaysDeleted ==
    [][(ev'.op \in {"recv", "bcast"} /\ sid[ev'.conn] \notin DOMAIN db.sessions
           /\ ev'.msg \in {JoinMsg("u1", "Alice")} \cup CodeX \cup LanguageGiven) =>
          LET s == sid[ev'.conn]
          IN /\ db' = db
             /\ get_session(db', s).result = "None"
             /\ get_code(db', s).result = "None"
             /\ s \notin DOMAIN db'.participants
             /\ s \notin DOMAIN db'.history
             /\ s \notin DOMAIN db'.code_snapshots
             /\ ev'.exc = None]_vars

\* The events that announce a store mutation.
Announces(m) ==
    \/ m.type \in {"user-joined", "language-changed"}
    \/ m.type = "code-update" /\ "code" \in DOMAIN m.data

\* The log entries that the handling of event m's message writes are in
\* store d under session s: the snapshot and its history entry, or the
\* language-change history entry.
Logged(d, s, m) ==
    CASE m.type = "code-update" ->
            /\ \E i \in DOMAIN d.code_snapshots[s] :
                  /\ d.code_snapshots[s][i].code = m.data.code
                  /\ d.code_snapshots[s][i].userId = m.userId
            /\ \E j \in DOMAIN d.history[s] :
                  /\ d.history[s][j].changeType = "snapshot"
                  /\ d.history[s][j].codeSnapshot = m.data.code
                  /\ d.history[s][j].userId = m.userId
      [] m.type = "language-changed" ->
            \E j \in DOMAIN d.history[s] :
                /\ d.history[s][j].changeType = "language-change"
                /\ d.history[s][j].userId = m.userId
                /\ d.history[s][j].description = "Changed language to " \o m.data.language
      [] OTHER -> TRUE

\* What the handling of event m's message leaves in store d under session
\* s: the roster entry, the code, or the language, with the log entries.
Stored(d, s, m) ==
    /\ Logged(d, s, m)
    /\ CASE m.type = "user-joined" ->
               \E i \in DOMAIN d.participants[s] : d.participants[s][i].userId = m.userId
         [] m.type = "code-update" -> d.sessions[s].code = m.data.code
         [] m.type = "language-changed" -> d.sessions[s].language = m.data.language
         [] OTHER -> TRUE

\* C40: whenever a connection is delivered a user-joined, a code-update
\* with code or a language-changed event, the session's store holds the
\* roster entry, the saved code with its snapshot and history entry, or the
\* new language with its history entry.
C40_EventDeliveredAfterStored ==
    \A o \in ev.out :
        Announces(o.msg) =>
            /\ sid[ev.conn] \in DOMAIN db.sessions
            /\ Stored(db, sid[ev.conn], o.msg)

\* C40, amended: for a session that exists when the message is handled, the
\* step that handles it has written the roster entry, the code with its
\* snapshot and history entry, or the language with its history entry when
\* it starts sending the event; and at every later delivery of the event
\* those log entries are in the store as long as the session exists.
C40_StoredBeforeFirstSend ==
    [][\A o \in ev'.out :
          Announces(o.msg) =>
              LET s == sid[ev'.conn]
              IN /\ (ev'.op = "recv" /\ s \in DOMAIN db.sessions) =>
                       /\ s \in DOMAIN db'.sessions
                       /\ Stored(db', s, o.msg)
                 /\ (ev'.op = "bcast" /\ s \in DOMAIN db'.sessions) =>
                       Logged(db', s, o.msg)]_vars

\* C40, reached: a suspended fan-out has just delivered a code-update event
\* to one more connection, after the first send, and the snapshot and the
\* history entry of its code are in the store.
C40_Witness ==
    /\ ev.op = "bcast"
    /\ sid[ev.conn] \in DOMAIN db.sessions
    /\ \E o \in ev.out :
          /\ o.msg.type = "code-update"
          /\ Logged(db, sid[ev.conn], o.msg)
          /\ db.code_snapshots[sid[ev.conn]] # <<>>

====
